---- MODULE Spec2Model ----
(***************************************************************************)
(* Model of ShuffleScreen's VideoPlayer (src/ShuffleScreen.py): the pool   *)
(* of VLC players, its resize, the random selection of the next file, the *)
(* 200 ms poller (update_ui) and the transport handlers.                   *)
(*                                                                         *)
(* Python lists are sequences; slot k of the code (0-based) is index k+1   *)
(* here.  A path is a pair <<directory, basename>>.  video_files is kept   *)
(* as the set of its (pairwise distinct, os.walk) paths: the code only     *)
(* tests membership in it and draws from it with random.choice.            *)
(* An exception that leaves a Qt slot unhandled ends the process (PyQt6    *)
(* calls qFatal): exception names it and nothing runs afterwards.          *)
(* Objects are numbered as an allocator numbers them: an object created by *)
(* a handler gets the least number carried by no object that was alive     *)
(* when the handler started or that the handler created, so the number of  *)
(* a destroyed object can come back in a later handler, never in the same. *)
(***************************************************************************)
EXTENDS Integers, Sequences, FiniteSets, TLC

\* ---- bounds of the model ----
\* Spec: the pool with engines that open every file.
MaxSlots == 3
NumFiles == 3
\* SpecFaults: also individual mute toggles and files the engine rejects.
MaxFaultSlots == 2
NumFaultFiles == 2
MaxUnreleased == 1
MaxPlaybackErrors == 1
\* SpecAudio: also the audio controls, idle poller ticks, the progress of
\* playback and the close of the window.
MaxAudioSlots == 2
NumAudioFiles == 1
MaxAudioUnreleased == 2
MaxPosition == 1
\* SpecResize: the spin box over its whole range, and fullscreen.
NumResizeFiles == 1

\* ---- program constants ----
SpinMin == 1
SpinMax == 9
InitialVolume == 50
SliderMax == 100

None == <<0, 0>>
Path(k) == <<((k - 1) \div 2) + 1, ((k - 1) % 2) + 1>>
Files == {Path(k) : k \in 1..NumFiles}
\* The folders select_folder can be given, each by the video files under it.
Folders == {{Path(k) : k \in 1..n} : n \in 0..NumFiles}
FaultFolders == SUBSET {Path(k) : k \in 1..NumFaultFiles}
AudioFolders == {{Path(k) : k \in 1..n} : n \in 0..NumAudioFiles}
ResizeFolders == {{Path(k) : k \in 1..n} : n \in 0..NumResizeFiles}
\* The values the volume slider is moved to.
Volumes == {InitialVolume, SliderMax}
Basename(v) == IF v = None THEN 0 ELSE v[2]

Terminal == {"Ended", "NothingSpecial", "Stopped"}

VARIABLES
  instances,            \* self.instances: <<[id, dummy]>>
  players,              \* self.players: <<[id, state, media, mute, volume, output]>>
  video_frames,         \* self.video_frames: <<frame id>>
  num_videos,           \* self.num_videos
  video_files,          \* self.video_files
  last_played,          \* self.last_played
  checkboxes,           \* mute_checkboxes_layout: <<isChecked>>
  video_list_widget,    \* the paths shown in video_list_widget
  controls_enabled,     \* play/next/stop/... buttons enabled
  current_video_label,  \* current_video_label: <<basename>>, <<>> = no video
  volume_slider,        \* volume_slider.value()
  timer_active,         \* self.timer.isActive()
  unreleased,           \* vlc.Instance objects dropped from self.instances unreleased
  playback_errors,      \* "Playback Error" critical boxes shown so far
  mute_button,          \* mute_button.text()
  closed,               \* closeEvent has accepted the close of the window
  is_fullscreen,        \* self.is_fullscreen
  exception,            \* the exception that escaped a handler, or "none"
  last                  \* what the last handler did (observation only)

vars == <<instances, players, video_frames, num_videos, video_files, last_played,
          checkboxes, video_list_widget, controls_enabled, current_video_label,
          volume_slider, timer_active, unreleased, playback_errors, mute_button,
          closed, is_fullscreen, exception, last>>

\* ---- list helpers ----
Range(q) == {q[k] : k \in 1..Len(q)}
\* Variant: del q[0] in place of del q[i].
RemoveFirst(q, i) == [k \in 1..(Len(q) - 1) |-> q[k + 1]]

RemoveAt(q, i) == [k \in 1..(Len(q) - 1) |-> IF k < i THEN q[k] ELSE q[k + 1]]
Repeat(x, n) == [k \in 1..n |-> x]

\* ---- the program state as one value, threaded through a handler ----
Self == [instances |-> instances, players |-> players, video_frames |-> video_frames,
         num_videos |-> num_videos, video_files |-> video_files,
         last_played |-> last_played, checkboxes |-> checkboxes,
         video_list_widget |-> video_list_widget,
         controls_enabled |-> controls_enabled,
         current_video_label |-> current_video_label,
         volume_slider |-> volume_slider, timer_active |-> timer_active,
         unreleased |-> unreleased, playback_errors |-> playback_errors,
         mute_button |-> mute_button, closed |-> closed,
         is_fullscreen |-> is_fullscreen,
         exception |-> exception, last |-> last]

Commit(s) ==
  /\ instances' = s.instances
  /\ players' = s.players
  /\ video_frames' = s.video_frames
  /\ num_videos' = s.num_videos
  /\ video_files' = s.video_files
  /\ last_played' = s.last_played
  /\ checkboxes' = s.checkboxes
  /\ video_list_widget' = s.video_list_widget
  /\ controls_enabled' = s.controls_enabled
  /\ current_video_label' = s.current_video_label
  /\ volume_slider' = s.volume_slider
  /\ timer_active' = s.timer_active
  /\ unreleased' = s.unreleased
  /\ playback_errors' = s.playback_errors
  /\ mute_button' = s.mute_button
  /\ closed' = s.closed
  /\ is_fullscreen' = s.is_fullscreen
  /\ exception' = s.exception
  /\ last' = s.last

\* The observation record a handler starts with.
Ids(s) == {s.players[k].id : k \in 1..Len(s.players)}
          \cup {s.instances[k].id : k \in 1..Len(s.instances)}
          \cup Range(s.video_frames)

\* may_fail: whether the engine may reject a file during this handler.
Begin(s, op, arg, may_fail) ==
  [taken |-> Ids(s), may_fail |-> may_fail] @@
  [s EXCEPT !.last = [op |-> op, arg |-> arg, picks |-> <<>>, failed |-> {},
                      trace |-> <<>>, reshuffle |-> FALSE, before |-> <<>>, reparented |-> {}]]

FreshId(s) == CHOOSE n \in 1..(Cardinality(s.taken) + 1) :
                n \notin s.taken /\ \A m \in 1..(n - 1) : m \in s.taken

\* The event loop of app.exec() dispatches handlers until the window is closed
\* or an exception escapes one.
Running == exception = "none" /\ ~closed

Log(s, ev) == [s EXCEPT !.last.trace = Append(@, ev)]
Raise(s, what) == [s EXCEPT !.exception = what]
Crashed(s) == s.exception # "none"

\* ---- the engine (python-vlc MediaPlayer) ----
NewInstance(id, dummy) == [id |-> id, dummy |-> dummy]
\* volume is the value last given to audio_set_volume, -1 while none was;
\* position is what get_position reports, in steps of the engine's progress.
NewPlayer(id) == [id |-> id, state |-> "NothingSpecial", media |-> None,
                  mute |-> FALSE, volume |-> -1, output |-> 0, position |-> 0]

is_playing(p) == p.state = "Playing"
vlc_set_media(p, v) == [p EXCEPT !.media = v, !.state = "NothingSpecial", !.position = 0]
vlc_play(p) ==
  IF p.media = None THEN p
  ELSE IF p.state \in {"Playing", "Paused"} THEN [p EXCEPT !.state = "Playing"]
  ELSE [p EXCEPT !.state = "Opening", !.position = 0]
vlc_pause(p) ==
  IF p.state = "Playing" THEN [p EXCEPT !.state = "Paused"]
  ELSE IF p.state = "Paused" THEN [p EXCEPT !.state = "Playing"]
  ELSE p
vlc_stop(p) == [p EXCEPT !.state = "Stopped", !.position = 0]
\* set_position has no effect on a player whose playback is not enabled.
vlc_set_position(p, pos) ==
  IF p.state \in {"Opening", "Playing", "Paused"} THEN [p EXCEPT !.position = pos] ELSE p
\* Variant: no branch of set_video_output matches the platform.
set_video_output_unsupported(p, frame) == p

set_video_output(p, frame) == [p EXCEPT !.output = frame]

\* ---- VideoPlayer.play_random_video ----
\* Variant: the filter on last_played is left out.
ChoicesWholeCatalog(s) == s.video_files

\* Variant: no fallback to the whole catalog.
ChoicesWithoutFallback(s) ==
  {video \in s.video_files : video \notin Range(s.last_played)}

\* The files random.choice may return for the current last_played.
Choices(s) ==
  LET choices == {video \in s.video_files : video \notin Range(s.last_played)}
  IN IF choices = {} THEN s.video_files ELSE choices

\* The outcomes of the try block: TRUE, and FALSE (the except branch) while
\* fewer than MaxPlaybackErrors errors have been shown.
Opens(s) == IF s.may_fail /\ s.playback_errors < MaxPlaybackErrors
            THEN BOOLEAN ELSE {TRUE}

\* Variant: no except branch, the exception leaves play_random_video.
StartVideoUncaught(s, i, next_video, ok) ==
  IF ~ok THEN Raise([s EXCEPT !.last.failed = @ \cup {i}], "failed to play video")
  ELSE LET p1 == vlc_play(vlc_set_media(s.players[i], next_video))
           p2 == IF s.checkboxes[i] THEN [p1 EXCEPT !.mute = TRUE]
                 ELSE [p1 EXCEPT !.mute = FALSE, !.volume = s.volume_slider]
       IN [s EXCEPT !.players[i] = p2]

\* Lines 536-557 for the chosen file; ok = FALSE is the except branch.
StartVideo(s, i, next_video, ok) ==
  IF ~ok THEN [s EXCEPT !.last.failed = @ \cup {i}, !.playback_errors = @ + 1]
  ELSE LET p1 == vlc_play(vlc_set_media(s.players[i], next_video))
           p2 == IF s.checkboxes[i] THEN [p1 EXCEPT !.mute = TRUE]
                 ELSE [p1 EXCEPT !.mute = FALSE, !.volume = s.volume_slider]
       IN [s EXCEPT !.players[i] = p2]

\* What is recorded of an assignment: the slot, the file, the entries of
\* last_played when it was chosen and those of the other slots.
Pick(s, i, video) ==
  [i |-> i, video |-> video, excluded |-> Range(s.last_played),
   others |-> {s.last_played[k] : k \in (1..Len(s.last_played)) \ {i}}]

\* The states play_random_video(i) can leave.
play_random_video(s, i) ==
  IF Crashed(s) THEN {s}
  ELSE IF Choices(s) = {} THEN {Raise(s, "choice from an empty sequence")}
  ELSE IF i > Len(s.last_played) THEN {Raise(s, "last_played index out of range")}
  ELSE {StartVideo([s EXCEPT !.last_played[i] = next_video,
                             !.last.picks = Append(@, Pick(s, i, next_video))],
                   i, next_video, ok) : next_video \in Choices(s), ok \in Opens(s)}

\* ---- VideoPlayer.play_random_videos ----
RECURSIVE PlayFrom(_, _)
PlayFrom(s, i) ==
  IF i > Len(s.players) THEN {s}
  ELSE UNION {PlayFrom(s2, i + 1) : s2 \in play_random_video(s, i)}

NowPlaying(s) == [k \in 1..Len(s.last_played) |-> Basename(s.last_played[k])]

\* Variant: last_played is not cleared first.
play_random_videos_uncleared(s) ==
  IF Crashed(s) \/ s.video_files = {} THEN {s}
  ELSE {IF Crashed(s2) THEN s2
        ELSE [s2 EXCEPT !.current_video_label = NowPlaying(s2), !.timer_active = TRUE]
        : s2 \in PlayFrom([s EXCEPT !.last.reshuffle = TRUE], 1)}

play_random_videos(s) ==
  IF Crashed(s) \/ s.video_files = {} THEN {s}
  ELSE {IF Crashed(s2) THEN s2
        ELSE [s2 EXCEPT !.current_video_label = NowPlaying(s2), !.timer_active = TRUE]
        : s2 \in PlayFrom([s EXCEPT !.last_played = Repeat(None, s.num_videos),
                                    !.last.reshuffle = TRUE], 1)}

\* ---- VideoPlayer.arrange_video_frames ----
\* Takes every frame out of the grid (setParent(None)) and adds the frames of
\* video_frames back; it issues no engine command.  last.reparented holds the
\* frames given a new parent with no set_video_output issued for them since.
arrange_video_frames(s) == [s EXCEPT !.last.reparented = Range(s.video_frames)]

\* ---- VideoPlayer.change_num_videos ----
\* One iteration of the loop of lines 473-499, for slot i.
AddPlayer(s, i) ==
  LET id == FreshId(s)
      s1 == [s EXCEPT !.taken = @ \cup {id},
                      !.instances = Append(@, NewInstance(id, FALSE)),
                      !.players = Append(@, set_video_output(NewPlayer(id), id)),
                      !.video_frames = Append(@, id),
                      !.checkboxes = Append(@, FALSE),
                      !.last_played = Append(@, None)]
  IN IF s1.video_files # {}
     THEN play_random_video([s1 EXCEPT !.last.reshuffle = FALSE], i)
     ELSE {s1}

RECURSIVE AddPlayers(_, _)
AddPlayers(s, i) ==
  IF Crashed(s) \/ i > s.num_videos THEN {s}
  ELSE UNION {AddPlayers(s2, i + 1) : s2 \in AddPlayer(s, i)}

\* Variant: the entry of a removed slot stays in last_played.
del_last_played_skipped(s, i) == s

\* del self.last_played[i]
del_last_played(s, i) ==
  IF i > Len(s.last_played) THEN Raise(s, "last_played index out of range")
  ELSE [s EXCEPT !.last_played = RemoveAt(@, i)]

\* One iteration of the loop of lines 504-524, for slot i.  The checkbox is
\* deleted on return to the event loop (deleteLater); slots go in descending
\* order, so taking it out of the layout at once reads the same items.
RemovePlayer(s, i) ==
  LET player == s.players[i]
      s1 == IF is_playing(player)
            THEN Log(Log([s EXCEPT !.players[i] = vlc_stop(player)],
                         <<"stop", player.id>>), <<"sleep", player.id>>)
            ELSE s
      s2 == Log([s1 EXCEPT !.players = RemoveAt(@, i)],
                <<"release_player", player.id>>)
  IN IF i > Len(s2.instances) THEN Raise(s2, "instances index out of range")
     ELSE LET instance == s2.instances[i]
              s3 == Log([s2 EXCEPT !.instances = RemoveAt(@, i)],
                        <<"release_instance", instance.id>>)
          IN IF i > Len(s3.video_frames)
             THEN Raise(s3, "video_frames index out of range")
             ELSE LET s4 == Log([s3 EXCEPT !.video_frames = RemoveAt(@, i)],
                                <<"remove_frame", s3.video_frames[i]>>)
                  IN IF i > Len(s4.checkboxes)
                     THEN Raise(s4, "no checkbox at index")
                     ELSE del_last_played([s4 EXCEPT !.checkboxes = RemoveAt(@, i)], i)

RECURSIVE RemovePlayers(_, _)
RemovePlayers(s, i) ==
  IF Crashed(s) \/ i <= s.num_videos THEN s
  ELSE RemovePlayers(RemovePlayer(s, i), i - 1)

\* Variant: the frames are laid out again for an unchanged size as well.
ChangeNumVideosRearranges(s, value) ==
  LET old_num_videos == Len(s.players)
      s1 == [s EXCEPT !.num_videos = value]
  IN IF value > old_num_videos
     THEN {IF Crashed(s2) THEN s2 ELSE arrange_video_frames(s2)
           : s2 \in AddPlayers(s1, old_num_videos + 1)}
     ELSE LET s2 == RemovePlayers(s1, old_num_videos)
          IN {IF Crashed(s2) THEN s2 ELSE arrange_video_frames(s2)}

ChangeNumVideos(s, value) ==
  LET old_num_videos == Len(s.players)
      s1 == [s EXCEPT !.num_videos = value]
  IN IF value > old_num_videos
     THEN {IF Crashed(s2) THEN s2 ELSE arrange_video_frames(s2)
           : s2 \in AddPlayers(s1, old_num_videos + 1)}
     ELSE IF value < old_num_videos
     THEN LET s2 == RemovePlayers(s1, old_num_videos)
          IN {IF Crashed(s2) THEN s2 ELSE arrange_video_frames(s2)}
     ELSE {s1}

\* valueChanged of num_videos_spinbox (range 1..9): the value differs from the
\* spin box's current one, which is num_videos.
change_num_videos(max_slots, may_fail) ==
  /\ Running
  /\ ~is_fullscreen
  /\ \E value \in SpinMin..SpinMax :
       /\ value <= max_slots
       /\ value # num_videos
       /\ \E s2 \in ChangeNumVideos(Begin(Self, "change_num_videos", value, may_fail),
                                    value) :
            Commit(s2)

\* The num_videos_spinbox asked for a value: one outside its range (1..9) is
\* refused by the spin box, which then emits nothing.  valueChanged is emitted
\* for a changed value only; the handler is run for the current value as
\* well, where it takes neither of its branches.
\* Variant: a spin box with no range.
NumVideosSpinboxUnbounded(s, value) == ChangeNumVideos(s, value)

NumVideosSpinbox(s, value) ==
  IF value \notin SpinMin..SpinMax THEN {s} ELSE ChangeNumVideos(s, value)

num_videos_spinbox ==
  /\ Running
  /\ ~is_fullscreen
  /\ \E value \in (SpinMin - 1)..(SpinMax + 1) :
       \E s2 \in NumVideosSpinbox(Begin(Self, "num_videos_spinbox", value, FALSE),
                                   value) :
         Commit(s2)

\* ---- VideoPlayer.toggle_fullscreen ----
\* Lines 682-683 and 722-723: set_video_output for the pairs of zip(players,
\* video_frames), from pair k on.
RECURSIVE UpdateVideoOutputs(_, _)
UpdateVideoOutputs(s, k) ==
  IF k > Len(s.players) \/ k > Len(s.video_frames) THEN s
  ELSE UpdateVideoOutputs(
         [s EXCEPT !.players[k] = set_video_output(@, s.video_frames[k]),
                   !.last.reparented = @ \ {s.video_frames[k]}], k + 1)

\* Either branch moves video_area_widget, and with it every frame, to another
\* parent and then updates the video outputs.
ToggleFullscreen(s) ==
  UpdateVideoOutputs([s EXCEPT !.is_fullscreen = ~@,
                               !.last.reparented = Range(s.video_frames)], 1)

\* The F key, a double click on a frame or the fullscreen button.
toggle_fullscreen ==
  /\ Running
  /\ Commit(ToggleFullscreen(Begin(Self, "toggle_fullscreen", 0, FALSE)))

\* ---- VideoPlayer.load_videos ----
LoadVideos(s, found) ==
  LET s1 == [s EXCEPT !.video_files = found]
  IN IF found # {}
     THEN play_random_videos([s1 EXCEPT !.video_list_widget = found,
                                        !.controls_enabled = TRUE])
     ELSE {[s1 EXCEPT !.controls_enabled = FALSE]}

\* select_folder with a folder holding the video files found.
load_videos(folders, may_fail) ==
  /\ Running
  /\ ~is_fullscreen
  /\ \E found \in folders :
       \E s2 \in LoadVideos(Begin(Self, "load_videos", found, may_fail), found) :
         Commit(s2)

\* ---- VideoPlayer.play_next / play_pause / stop ----
\* Variant: play_next does nothing.
PlayNextSkipped(s) == {s}

PlayNext(s) == play_random_videos(s)

play_next(may_fail) ==
  /\ Running
  /\ \E s2 \in PlayNext(Begin(Self, "play_next", 0, may_fail)) : Commit(s2)

\* Variant: play is issued to every slot also when all are in a terminal state.
PlayPauseResumeOnly(s) ==
  IF \E k \in 1..Len(s.players) : is_playing(s.players[k])
  THEN {[s EXCEPT !.players = [k \in 1..Len(s.players) |-> vlc_pause(s.players[k])]]}
  ELSE {[s EXCEPT !.players = [k \in 1..Len(s.players) |-> vlc_play(s.players[k])],
                  !.timer_active = TRUE]}

PlayPause(s) ==
  IF \E k \in 1..Len(s.players) : is_playing(s.players[k])
  THEN {[s EXCEPT !.players = [k \in 1..Len(s.players) |-> vlc_pause(s.players[k])]]}
  ELSE {[s2 EXCEPT !.timer_active = TRUE]
        : s2 \in IF \A k \in 1..Len(s.players) : s.players[k].state \in Terminal
                 THEN play_random_videos(s)
                 ELSE {[s EXCEPT !.players =
                                   [k \in 1..Len(s.players) |-> vlc_play(s.players[k])]]}}

play_pause(may_fail) ==
  /\ Running
  /\ \E s2 \in PlayPause(Begin(Self, "play_pause", 0, may_fail)) : Commit(s2)

RECURSIVE StopFrom(_, _)
StopFrom(s, i) ==
  IF i > Len(s.players) THEN s
  ELSE IF is_playing(s.players[i])
  THEN StopFrom(Log(Log([s EXCEPT !.players[i] = vlc_stop(@)],
                        <<"stop", s.players[i].id>>), <<"sleep", s.players[i].id>>), i + 1)
  ELSE StopFrom(s, i + 1)

stop ==
  /\ Running
  /\ Commit([StopFrom(Begin(Self, "stop", 0, FALSE), 1)
               EXCEPT !.current_video_label = <<>>, !.timer_active = FALSE])

\* ---- VideoPlayer.play_selected_video ----
\* Variant: a selected file that is in last_played is exchanged for one the
\* selection policy allows.
PlaySelectedAtByPolicy(s, index_to_replace, selected_video, ok) ==
  IF index_to_replace > Len(s.last_played)
  THEN Raise(s, "last_played index out of range")
  ELSE LET video == IF selected_video \in Range(s.last_played)
                    THEN CHOOSE v \in Choices(s) \cup {selected_video} :
                           v \in Choices(s) \/ Choices(s) = {}
                    ELSE selected_video
           s1 == [s EXCEPT !.last_played[index_to_replace] = video,
                           !.last.picks = Append(@, Pick(s, index_to_replace, video))]
           s2 == StartVideo(s1, index_to_replace, video, ok)
       IN IF ok THEN [s2 EXCEPT !.current_video_label = NowPlaying(s2)] ELSE s2

\* index_to_replace is slot 0 unless the dialog is shown (two or more playing).
PlaySelectedAt(s, index_to_replace, selected_video, ok) ==
  IF index_to_replace > Len(s.last_played)
  THEN Raise(s, "last_played index out of range")
  ELSE LET s1 == [s EXCEPT !.last_played[index_to_replace] = selected_video,
                           !.last.picks = Append(@, Pick(s, index_to_replace,
                                                         selected_video))]
           s2 == StartVideo(s1, index_to_replace, selected_video, ok)
       IN IF ok THEN [s2 EXCEPT !.current_video_label = NowPlaying(s2)] ELSE s2

PlaySelectedVideo(s, selected_video) ==
  LET playing_players == {k \in 1..Len(s.players) : is_playing(s.players[k])}
  IN IF Len(s.players) = 0 THEN {s}
     ELSE IF Cardinality(playing_players) <= 1
     THEN {PlaySelectedAt(s, 1, selected_video, ok) : ok \in Opens(s)}
     ELSE {s} \cup {PlaySelectedAt(s, k, selected_video, ok)
                    : k \in playing_players, ok \in Opens(s)}

play_selected_video(may_fail) ==
  /\ Running
  /\ \E item \in video_list_widget :
       \E s2 \in PlaySelectedVideo(Begin(Self, "play_selected_video", item, may_fail),
                                  item) :
         Commit(s2)

\* ---- VideoPlayer.toggle_individual_mute ----
\* What the handler finds in the slot.
Captured(s, index) ==
  [media |-> s.players[index].media, position |-> s.players[index].position,
   state |-> s.players[index].state, id |-> s.players[index].id,
   frame |-> s.video_frames[index], was_checked |-> s.checkboxes[index],
   last_played |-> s.last_played]

\* Kept in last.before: what this toggle found and, when the handler before it
\* was a toggle of the same slot, what that one had found.
Before(s, index) ==
  [now |-> Captured(s, index),
   cycle_from |-> IF s.last.op = "toggle_individual_mute" /\ s.last.arg = index
                  THEN <<s.last.before.now>> ELSE <<>>]

\* Variant: current_position is not restored.
RestorePositionSkipped(p, current_position) == p

\* Lines 586-587.
RestorePosition(p, current_position) ==
  IF current_position > 0 THEN vlc_set_position(p, current_position) ELSE p

\* is_muted is what the checkbox has become.
ToggleIndividualMute(s, index, is_muted) ==
  LET current_player == s.players[index]
      current_media == current_player.media
      current_position == current_player.position
      id == FreshId(s)
      s1 == Log(Log(s, <<"stop", current_player.id>>),
                <<"release_player", current_player.id>>)
      new_player == set_video_output(NewPlayer(id), s.video_frames[index])
  IN [s1 EXCEPT !.taken = @ \cup {id},
                !.unreleased = @ + 1,
                !.instances[index] = NewInstance(id, is_muted),
                !.players[index] =
                  IF current_media # None
                  THEN RestorePosition(vlc_play(vlc_set_media(new_player, current_media)),
                                       current_position)
                  ELSE new_player]

\* stateChanged of the mute checkbox of slot index; max_unreleased bounds the
\* instances left unreleased.
toggle_individual_mute(max_unreleased) ==
  /\ Running
  /\ unreleased < max_unreleased
  /\ \E index \in 1..Len(checkboxes) :
       /\ index <= Len(players)
       /\ Commit(ToggleIndividualMute(
            [Begin(Self, "toggle_individual_mute", index, FALSE)
               EXCEPT !.last.before = Before(Self, index),
                      !.checkboxes[index] = ~checkboxes[index]],
            index, ~checkboxes[index]))

\* ---- VideoPlayer.update_ui ----
\* Variant: every slot is taken to have ended.
EndedAlways(p) == TRUE

\* state == vlc.State.Ended
Ended(p) == p.state = "Ended"

RECURSIVE UpdateFrom(_, _)
UpdateFrom(s, i) ==
  IF Crashed(s) \/ i > Len(s.players) THEN {s}
  ELSE IF Ended(s.players[i])
  THEN UNION {UpdateFrom(s2, i + 1)
              : s2 \in play_random_video([s EXCEPT !.last.reshuffle = FALSE], i)}
  ELSE IF s.players[i].state = "Error"
  THEN UNION {UpdateFrom(s2, i + 1) : s2 \in PlayNext(s)}
  ELSE UpdateFrom(s, i + 1)

\* timeout of self.timer.  A tick that finds no slot Ended or in Error runs no
\* statement that changes anything and is left out as a stuttering step.
update_ui(may_fail) ==
  /\ Running
  /\ timer_active
  /\ \E k \in 1..Len(players) : players[k].state \in {"Ended", "Error"}
  /\ \E s2 \in UpdateFrom(Begin(Self, "update_ui", 0, may_fail), 1) : Commit(s2)

\* timeout of self.timer, whatever the states of the slots.
timer_timeout(may_fail) ==
  /\ Running
  /\ timer_active
  /\ \E s2 \in UpdateFrom(Begin(Self, "update_ui", 0, may_fail), 1) : Commit(s2)

\* ---- VideoPlayer.toggle_mute ----
ToggleMute(s) ==
  IF \E k \in 1..Len(s.players) : ~s.players[k].mute
  THEN [s EXCEPT !.players = [k \in 1..Len(s.players) |->
                                [s.players[k] EXCEPT !.mute = TRUE]],
                 !.mute_button = "Unmute"]
  ELSE [s EXCEPT !.players = [k \in 1..Len(s.players) |->
                                [s.players[k] EXCEPT !.mute = FALSE]],
                 !.mute_button = "Mute"]

toggle_mute ==
  /\ Running
  /\ Commit(ToggleMute(Begin(Self, "toggle_mute", 0, FALSE)))

\* ---- VideoPlayer.set_volume ----
\* Variant: the mute checkboxes are not consulted.
SetVolumeOfEverySlot(s, value) ==
  [s EXCEPT !.players = [k \in 1..Len(s.players) |->
                           [s.players[k] EXCEPT !.volume = value]]]

SetVolume(s, value) ==
  IF Len(s.checkboxes) < Len(s.players) THEN Raise(s, "no checkbox at index")
  ELSE [s EXCEPT !.players = [k \in 1..Len(s.players) |->
                                IF ~s.checkboxes[k]
                                THEN [s.players[k] EXCEPT !.volume = value]
                                ELSE s.players[k]]]

\* valueChanged of volume_slider, enabled once a folder with videos is loaded.
set_volume ==
  /\ Running
  /\ controls_enabled
  /\ \E value \in Volumes :
       /\ value # volume_slider
       /\ Commit(SetVolume([Begin(Self, "set_volume", value, FALSE)
                              EXCEPT !.volume_slider = value], value))

\* ---- VideoPlayer.closeEvent ----
RECURSIVE ClosePlayers(_, _)
ClosePlayers(s, i) ==
  IF i > Len(s.players) THEN s
  ELSE LET player == s.players[i]
           s1 == IF is_playing(player)
                 THEN Log([s EXCEPT !.players[i] = vlc_stop(player)],
                          <<"stop", player.id>>)
                 ELSE s
       IN ClosePlayers(Log(Log(s1, <<"sleep", player.id>>),
                           <<"release_player", player.id>>), i + 1)

RECURSIVE CloseInstances(_, _)
CloseInstances(s, i) ==
  IF i > Len(s.instances) THEN s
  ELSE CloseInstances(Log(s, <<"release_instance", s.instances[i].id>>), i + 1)

closeEvent ==
  /\ Running
  /\ Commit([CloseInstances(ClosePlayers(Begin(Self, "closeEvent", 0, FALSE), 1), 1)
               EXCEPT !.closed = TRUE])

\* ---- the engines' own threads ----
\* An opening player starts playing or fails; a playing one reaches its end.
EngineStep(s, i, to) ==
  [Begin(s, "engine", 0, FALSE) EXCEPT !.players[i].state = to]

\* The callback attached to MediaPlayerPlaying with the slot's index (lines
\* 544, 590, 854); the engine calls it from its own thread when the player
\* starts playing.
on_player_playing(s, index) ==
  IF index > Len(s.players) THEN s
  ELSE Log(s, <<"video_set_marquee", s.players[index].id>>)

engine_playing ==
  /\ Running
  /\ \E i \in 1..Len(players) :
       /\ players[i].state = "Opening"
       /\ Commit(on_player_playing(EngineStep(Self, i, "Playing"), i))

engine_error ==
  /\ Running
  /\ \E i \in 1..Len(players) :
       /\ players[i].state = "Opening"
       /\ Commit(EngineStep(Self, i, "Error"))

engine_ended ==
  /\ Running
  /\ \E i \in 1..Len(players) :
       /\ players[i].state = "Playing"
       /\ Commit(EngineStep(Self, i, "Ended"))

\* Playback of a playing slot moves on.
engine_position ==
  /\ Running
  /\ \E i \in 1..Len(players) :
       /\ players[i].state = "Playing"
       /\ players[i].position < MaxPosition
       /\ Commit([Begin(Self, "engine", 0, FALSE)
                    EXCEPT !.players[i].position = @ + 1])

\* ---- VideoPlayer.__init__ (with init_ui and init_players) ----
Init ==
  /\ instances = <<NewInstance(1, FALSE)>>
  /\ players = <<set_video_output(NewPlayer(1), 1)>>
  /\ video_frames = <<1>>
  /\ num_videos = 1
  /\ video_files = {}
  /\ last_played = <<>>
  /\ checkboxes = <<FALSE>>
  /\ video_list_widget = {}
  /\ controls_enabled = FALSE
  /\ current_video_label = <<>>
  /\ volume_slider = InitialVolume
  /\ timer_active = FALSE
  /\ unreleased = 0
  /\ playback_errors = 0
  /\ mute_button = "Mute"
  /\ closed = FALSE
  /\ is_fullscreen = FALSE
  /\ exception = "none"
  /\ last = [op |-> "init", arg |-> 0, picks |-> <<>>, failed |-> {}, trace |-> <<>>,
             reshuffle |-> FALSE, before |-> <<>>, reparented |-> {}]

\* The pool, with engines that open and play every file they are given.
Next ==
  \/ load_videos(Folders, FALSE)
  \/ change_num_videos(MaxSlots, FALSE)
  \/ play_pause(FALSE)
  \/ play_next(FALSE)
  \/ stop
  \/ play_selected_video(FALSE)
  \/ update_ui(FALSE)
  \/ engine_playing
  \/ engine_ended

Spec == Init /\ [][Next]_vars

\* The same with individual mute toggles and files the engine may reject or
\* fail to play.
NextFaults ==
  \/ load_videos(FaultFolders, TRUE)
  \/ change_num_videos(MaxFaultSlots, TRUE)
  \/ play_pause(TRUE)
  \/ play_next(TRUE)
  \/ stop
  \/ play_selected_video(TRUE)
  \/ toggle_individual_mute(MaxUnreleased)
  \/ update_ui(TRUE)
  \/ engine_playing
  \/ engine_error
  \/ engine_ended

SpecFaults == Init /\ [][NextFaults]_vars

\* The same as Next with the audio controls, individual mute toggles, poller
\* ticks that find nothing to do, the progress of playback and the close of
\* the window.
NextAudio ==
  \/ load_videos(AudioFolders, FALSE)
  \/ change_num_videos(MaxAudioSlots, FALSE)
  \/ play_pause(FALSE)
  \/ play_next(FALSE)
  \/ stop
  \/ play_selected_video(FALSE)
  \/ toggle_individual_mute(MaxAudioUnreleased)
  \/ toggle_mute
  \/ set_volume
  \/ timer_timeout(FALSE)
  \/ closeEvent
  \/ engine_playing
  \/ engine_position
  \/ engine_ended

SpecAudio == Init /\ [][NextAudio]_vars

\* Resizes over the whole range of the spin box, with requests it refuses,
\* and fullscreen; the engines are left opening.
NextResize ==
  \/ load_videos(ResizeFolders, FALSE)
  \/ num_videos_spinbox
  \/ toggle_fullscreen

SpecResize == Init /\ [][NextResize]_vars

\* ======================= the claims =======================
Slots == 1..Len(players)
AssignedByPolicy == last.op # "play_selected_video"

\* C1 (as claimed): with a non-empty catalog, a handler other than stop that
\* leaves some slot started (opening or playing) leaves the poller timer
\* active, so that the slot is given a new file by update_ui once it has Ended.
C1_PollerRunsWhileStarted ==
  (exception = "none" /\ video_files # {} /\ last.op \notin {"stop", "engine"}
     /\ \E k \in Slots : players[k].state \in {"Opening", "Playing"})
  => timer_active

\* C2: a file chosen by play_random_video is never among the last_played
\* entries when some catalog file is outside them, and is always a catalog file.
C2_SelectionSetContract ==
  AssignedByPolicy =>
    \A n \in 1..Len(last.picks) :
      /\ last.picks[n].video \in video_files
      /\ (video_files \ last.picks[n].excluded # {}
            => last.picks[n].video \notin last.picks[n].excluded)

\* C2 witness: play_random_video chose once with an excluded catalog file and a
\* free one, and once with every catalog file excluded.
C2_Witness ==
  /\ AssignedByPolicy
  /\ \E n \in 1..Len(last.picks) :
       /\ video_files \cap last.picks[n].excluded # {}
       /\ video_files \ last.picks[n].excluded # {}
  /\ \E n \in 1..Len(last.picks) : video_files \ last.picks[n].excluded = {}

\* C3: after play_random_videos over k slots with k <= number of catalog
\* files, the k entries of last_played are pairwise distinct.
C3_ReshuffleDistinct ==
  (last.reshuffle /\ Len(players) <= Cardinality(video_files))
  => /\ Len(last_played) = Len(players)
     /\ \A j, k \in 1..Len(last_played) : j # k => last_played[j] # last_played[k]

\* C3 witness: a reshuffle of three slots over three files.
C3_Witness ==
  /\ last.reshuffle
  /\ Len(players) = 3
  /\ Cardinality(video_files) = 3
  /\ Len(last.picks) = 3

\* The picks of a poller tick that replaced Ended slots one by one.
PollerPicks == IF last.op = "update_ui" /\ ~last.reshuffle THEN last.picks ELSE <<>>

\* C4 (as claimed): when update_ui replaces the file of an Ended slot and
\* some catalog file is assigned to no other slot, the new file differs from
\* every file of the other slots.
C4_NoRepeatAgainstOthers ==
  \A n \in 1..Len(PollerPicks) :
    video_files \ PollerPicks[n].others # {}
      => PollerPicks[n].video \notin PollerPicks[n].others

\* C4 (amended): when update_ui replaces the file of an Ended slot and some
\* catalog file is in no entry of last_played, the entry of the ended slot
\* included, the new file differs from every file of the other slots.
C4_NoRepeatWhenFileFree ==
  \A n \in 1..Len(PollerPicks) :
    video_files \ PollerPicks[n].excluded # {}
      => PollerPicks[n].video \notin PollerPicks[n].others

\* C4 witness: the poller replaced a file while other slots held catalog files
\* and a catalog file was free.
C4_Witness ==
  \E n \in 1..Len(PollerPicks) :
    /\ video_files \ PollerPicks[n].excluded # {}
    /\ video_files \cap PollerPicks[n].others # {}

\* C5: with a non-empty catalog play_random_videos raises nothing and gives
\* every slot a catalog file, also with more slots than files; with as many
\* slots as files the files assigned are exactly the catalog.
C5_GracefulFallback ==
  last.reshuffle =>
    /\ exception = "none"
    /\ Len(last_played) = Len(players)
    /\ \A k \in 1..Len(last_played) : last_played[k] \in video_files
    /\ (Len(players) = Cardinality(video_files) => Range(last_played) = video_files)

\* C5 witness: three slots reshuffled over a catalog of one file.
C5_Witness ==
  /\ last.reshuffle
  /\ Len(players) = 3
  /\ Cardinality(video_files) = 1
  /\ \A k \in 1..Len(last_played) : last_played[k] \in video_files

\* C6 (as claimed): random selection is never invoked on an empty catalog.
C6_NeverChoosesFromEmptyCatalog == exception # "choice from an empty sequence"

\* The commands a shrink from n slots to m issues when the removed slots are
\* playing: for slot n down to m + 1, stop, settle, release the player,
\* release the instance, drop the frame.
RemovalTrace(ps, ins, frs, n, m) ==
  [e \in 1..(5 * (n - m)) |->
     LET k == n - ((e - 1) \div 5)
         step == (e - 1) % 5
     IN IF step = 0 THEN <<"stop", ps[k].id>>
        ELSE IF step = 1 THEN <<"sleep", ps[k].id>>
        ELSE IF step = 2 THEN <<"release_player", ps[k].id>>
        ELSE IF step = 3 THEN <<"release_instance", ins[k].id>>
        ELSE <<"remove_frame", frs[k]>>]

\* C7: change_num_videos(m) with m below the slot count n, a catalog loaded
\* and the removed slots playing, stops and releases slots n-1 down to m in
\* that order, leaves m slots and leaves the engine, surface, file and
\* last_played entry of the slots 0..m-1 as they were.
C7_ShrinkRemovesTail ==
  [][(/\ last'.op = "change_num_videos"
      /\ last'.arg < Len(players)
      /\ video_files # {}
      /\ \A k \in (last'.arg + 1)..Len(players) : players[k].state = "Playing")
     => /\ exception' = "none"
        /\ num_videos' = last'.arg
        /\ players' = SubSeq(players, 1, last'.arg)
        /\ instances' = SubSeq(instances, 1, last'.arg)
        /\ video_frames' = SubSeq(video_frames, 1, last'.arg)
        /\ last_played' = SubSeq(last_played, 1, last'.arg)
        /\ last'.trace = RemovalTrace(players, instances, video_frames,
                                      Len(players), last'.arg)]_vars

\* C7 witness: a shrink from three playing slots to one.
C7_Witness ==
  /\ last.op = "change_num_videos"
  /\ exception = "none"
  /\ video_files # {}
  /\ Len(players) = 1
  /\ Len(last.trace) = 10

\* C8 (as claimed): a resize, also one made before any folder is loaded,
\* completes without error and leaves exactly the requested number of slots
\* and surfaces.
C8_ResizeCompletes ==
  last.op = "change_num_videos"
  => /\ exception = "none"
     /\ Len(players) = last.arg
     /\ Len(video_frames) = last.arg

\* C9: change_num_videos(m) with m above the slot count n adds m - n slots,
\* each with a new engine bound to its own new surface; with a catalog loaded
\* each new slot is given a catalog file and started; the engines, surfaces
\* and files of the slots 0..n-1 are as they were.
C9_GrowAddsSlots ==
  [][(last'.op = "change_num_videos" /\ last'.arg > Len(players))
     => LET n == Len(players)
            m == last'.arg
            new == (n + 1)..m
        IN /\ exception' = "none"
           /\ Len(players') = m /\ Len(instances') = m /\ Len(video_frames') = m
           /\ SubSeq(players', 1, n) = players
           /\ SubSeq(instances', 1, n) = instances
           /\ SubSeq(video_frames', 1, n) = video_frames
           /\ Len(last_played') = Len(last_played) + (m - n)
           /\ \A k \in 1..Len(last_played) : last_played'[k] = last_played[k]
           /\ \A k \in new :
                /\ players'[k].id \notin {players[j].id : j \in 1..n}
                /\ instances'[k].id \notin {instances[j].id : j \in 1..n}
                /\ video_frames'[k] \notin Range(video_frames)
                /\ players'[k].output = video_frames'[k]
           /\ \A j, k \in new :
                j # k => /\ players'[j].id # players'[k].id
                         /\ instances'[j].id # instances'[k].id
                         /\ video_frames'[j] # video_frames'[k]
           /\ (video_files # {} =>
                 \A k \in new : /\ last_played'[k] \in video_files
                                /\ players'[k].media = last_played'[k]
                                /\ players'[k].state = "Opening")]_vars

\* C9 witness: a grow from one slot to three with a catalog loaded.
C9_Witness ==
  /\ last.op = "change_num_videos"
  /\ Len(players) = 3
  /\ Len(last.picks) = 2
  /\ \A k \in 2..3 : players[k].state = "Opening"

\* C10: after a handler that assigned a file to some slot and raised nothing
\* (reshuffle, grow, poller replacement, manual selection), last_played has
\* as many entries as there are players.
C10_LastPlayedMatchesPlayers ==
  (exception = "none" /\ Len(last.picks) > 0) => Len(last_played) = Len(players)

\* C10 witness: a poller tick that replaced the files of two slots, one of
\* them with an engine recreated by a mute toggle.
C10_Witness ==
  /\ exception = "none"
  /\ last.op = "update_ui"
  /\ Len(last.picks) = 2
  /\ Len(players) = 2
  /\ unreleased = 1

\* The slot of a toggle_individual_mute(index, unmuted) that came right after a
\* toggle_individual_mute(index, muted) which had found the slot playing.
MuteCycle ==
  /\ last.op = "toggle_individual_mute"
  /\ last.before.cycle_from # <<>>
  /\ last.before.cycle_from[1].state = "Playing"
  /\ ~last.before.cycle_from[1].was_checked

\* What a mute-toggle cycle leaves, but for the state of the new engine: a new
\* engine with normal audio output on the same surface, with the same file at
\* the captured position, and last_played as it was.
MuteCycleRestored ==
  LET i == last.arg
      origin == last.before.cycle_from[1]
  IN /\ players[i].id # last.before.now.id
     /\ instances[i].id = players[i].id
     /\ ~instances[i].dummy
     /\ players[i].output = origin.frame
     /\ video_frames[i] = origin.frame
     /\ players[i].media = origin.media
     /\ players[i].position = origin.position
     /\ last_played = origin.last_played

\* C11 (as claimed): a mute-toggle cycle on a slot playing file f at position p
\* leaves a new engine on the same surface with f at p, last_played unchanged,
\* and the engine in state Playing.
C11_MuteCycleLeavesPlaying ==
  MuteCycle => (MuteCycleRestored /\ players[last.arg].state = "Playing")

\* C11 (amended): the same, with the new engine started (state Opening) when
\* the handler returns.
C11_MuteCycleRestarts ==
  MuteCycle => (MuteCycleRestored /\ players[last.arg].state = "Opening")

\* C11 witness: a cycle on a slot that was playing past the start of its file.
C11_Witness ==
  /\ MuteCycle
  /\ last.before.cycle_from[1].position > 0
  /\ last.before.cycle_from[1].media \in video_files
  /\ players[last.arg].position = last.before.cycle_from[1].position

\* C12 (as claimed): in every handler that releases an engine (shrink, mute
\* toggle, close of the window), an engine that was playing is released only
\* after a stop of that engine and then a settle wait.
C12_StopSettleRelease ==
  [][\A n \in 1..Len(last'.trace) :
       (/\ last'.trace[n][1] = "release_player"
        /\ \E k \in 1..Len(players) :
             players[k].id = last'.trace[n][2] /\ is_playing(players[k]))
       => /\ n >= 3
          /\ last'.trace[n - 2] = <<"stop", last'.trace[n][2]>>
          /\ last'.trace[n - 1] = <<"sleep", last'.trace[n][2]>>]_vars

\* A step of play_pause taken while no slot is playing.
PlayPauseNonePlaying ==
  last'.op = "play_pause" /\ \A k \in Slots : ~is_playing(players[k])

AllTerminal == \A k \in Slots : players[k].state \in Terminal

\* The step is a full reshuffle: last_played cleared, every slot given a
\* catalog file and started.
FullReshuffle ==
  /\ last'.reshuffle
  /\ Len(last'.picks) = Len(players)
  /\ last'.picks[1].excluded = {None}
  /\ Len(last_played') = Len(players)
  /\ \A k \in Slots : /\ last_played'[k] \in video_files
                       /\ last'.picks[k].i = k
                       /\ players'[k].media = last_played'[k]
                       /\ players'[k].state = "Opening"

\* The step issues play to every slot and leaves last_played alone.
BareResume ==
  /\ players' = [k \in Slots |-> vlc_play(players[k])]
  /\ last_played' = last_played
  /\ last'.picks = <<>>

\* C13 (as claimed): play_pause with no slot playing reshuffles when every
\* slot is in a terminal state (Ended, NothingSpecial, Stopped) and otherwise
\* issues play to every slot and leaves last_played unchanged.
C13_PlayPauseReshufflesWhenTerminal ==
  [][PlayPauseNonePlaying => IF AllTerminal THEN FullReshuffle ELSE BareResume]_vars

\* C13 (amended): it reshuffles when every slot is in a terminal state and the
\* catalog is not empty, changes no slot and no entry of last_played when
\* every slot is in a terminal state and the catalog is empty, and otherwise
\* issues play to every slot and leaves last_played unchanged.
C13_PlayPauseReshufflesLoadedCatalog ==
  [][PlayPauseNonePlaying
     => IF AllTerminal
        THEN IF video_files # {} THEN FullReshuffle
             ELSE players' = players /\ last_played' = last_played
        ELSE BareResume]_vars

\* C13 witness: play_pause reshuffled three slots, none of them playing.
C13_Witness ==
  /\ last.op = "play_pause"
  /\ last.reshuffle
  /\ Len(players) = 3
  /\ Len(last.picks) = 3
  /\ \A k \in Slots : players[k].state = "Opening"

\* Slot k leaves the tick with a newly chosen catalog file recorded in
\* last_played and its engine started on that file.
ErrorRecovered(k) ==
  /\ exception' = "none"
  /\ k <= Len(last_played')
  /\ last_played'[k] \in video_files
  /\ \E n \in 1..Len(last'.picks) :
       last'.picks[n].i = k /\ last'.picks[n].video = last_played'[k]
  /\ players'[k].media = last_played'[k]
  /\ players'[k].state \in {"Opening", "Playing"}

C15_OpenFailureIsolated ==
  (last.reshuffle /\ last.failed # {})
  => /\ exception = "none"
     /\ playback_errors >= Cardinality(last.failed)
     /\ Len(last_played) = Len(players)
     /\ \A j \in Slots \ last.failed :
          /\ \E n \in 1..Len(last.picks) :
               last.picks[n].i = j /\ last.picks[n].video = last_played[j]
          /\ last_played[j] \in video_files
          /\ players[j].media = last_played[j]
          /\ players[j].state = "Opening"

\* C15 witness: a reshuffle of two slots in which the file of the first slot
\* was rejected and the second slot was started.
C15_Witness ==
  /\ last.reshuffle
  /\ last.failed = {1}
  /\ Len(players) = 2
  /\ playback_errors = 1
  /\ players[2].state = "Opening"
  /\ players[2].media = last_played[2]

\* C16 (as claimed): when the engine rejects the file chosen for slot i, in
\* play_random_video or in play_selected_video, last_played[i] is what it
\* was before the attempt, or none.
C16_AssignmentKeptOnOpenFailure ==
  [][\A i \in last'.failed :
       /\ i <= Len(last_played')
       /\ \/ last_played'[i] = None
          \/ i <= Len(last_played) /\ last_played'[i] = last_played[i]]_vars

\* The pool is globally muted from the toggle_mute that muted all videos (the
\* button then reads "Unmute") to the next toggle_mute.
GloballyMuted == mute_button = "Unmute"

\* What is heard of slot k: nothing when its engine is muted or its instance
\* has the dummy audio output, and else the volume last set on its engine
\* (-1: none was set, the engine plays at its own default).
EffectiveLevel(k) ==
  IF players[k].mute \/ instances[k].dummy THEN 0 ELSE players[k].volume

Audible(k) == players[k].state \in {"Opening", "Playing", "Paused"}

\* C17 (as claimed): the effective audio level of every slot that has been
\* started is 0 when the pool is globally muted or the slot is individually
\* muted, and the value of the volume slider otherwise.
C17_EffectiveVolume ==
  exception = "none"
  => \A k \in Slots :
       Audible(k) => EffectiveLevel(k) = IF GloballyMuted \/ checkboxes[k]
                                         THEN 0 ELSE volume_slider

\* C18 (as claimed): while the pool is globally muted and every engine is
\* muted, a poller tick, play_next, play_selected_video or change_num_videos
\* leaves no started slot with an unmuted engine.
C18_GlobalMutePersists ==
  [][(/\ GloballyMuted
      /\ \A k \in Slots : players[k].mute
      /\ last'.op \in {"update_ui", "play_next", "play_selected_video",
                       "change_num_videos"}
      /\ exception' = "none")
     => \A k \in 1..Len(players') :
          players'[k].state \in {"Opening", "Playing", "Paused"} => players'[k].mute]_vars

\* C19: set_volume(v) sets the engine volume to v on every slot whose mute
\* checkbox is unchecked and changes nothing else of any engine: not the
\* volume of an individually muted slot, nor a file, a state or an entry of
\* last_played.
C19_SetVolumeFrame ==
  [][last'.op = "set_volume"
     => /\ exception' = "none"
        /\ players' = [k \in Slots |->
                         IF checkboxes[k] THEN players[k]
                         ELSE [players[k] EXCEPT !.volume = last'.arg]]
        /\ last_played' = last_played
        /\ instances' = instances
        /\ video_frames' = video_frames
        /\ checkboxes' = checkboxes
        /\ current_video_label' = current_video_label
        /\ timer_active' = timer_active]_vars

\* C19 witness: set_volume with slot 0 individually muted and slot 1 not.
C19_Witness ==
  /\ last.op = "set_volume"
  /\ Len(players) = 2
  /\ checkboxes = <<TRUE, FALSE>>
  /\ players[1].volume # last.arg
  /\ players[2].volume = last.arg
  /\ players[2].state = "Playing"

\* C20: a poller tick that finds no slot Ended or in Error changes nothing
\* (last_played, the engines, the label, the timer); and a tick that finds
\* no slot in Error leaves every slot that has not Ended as it was.
C20_IdleTickFrame ==
  [][last'.op = "update_ui"
     => /\ (\A k \in Slots : players[k].state \notin {"Ended", "Error"})
             => /\ last_played' = last_played
                /\ players' = players
                /\ instances' = instances
                /\ current_video_label' = current_video_label
                /\ timer_active' = timer_active
                /\ exception' = exception
                /\ last'.picks = <<>>
        /\ (\A k \in Slots : players[k].state # "Error")
             => \A k \in Slots :
                  players[k].state # "Ended"
                  => /\ players'[k] = players[k]
                     /\ k <= Len(last_played) => last_played'[k] = last_played[k]
                     /\ \A n \in 1..Len(last'.picks) : last'.picks[n].i # k]_vars

\* C20 witness: a tick with a catalog loaded that found both slots playing.
C20_Witness ==
  /\ last.op = "update_ui"
  /\ exception = "none"
  /\ video_files # {}
  /\ last.picks = <<>>
  /\ Len(players) = 2
  /\ \A k \in Slots : players[k].state = "Playing"

\* C21 (as claimed): after a poller tick that replaced the file of an Ended
\* slot, the label lists the basenames of the entries of last_played in slot
\* order.
C21_LabelFollowsPoller ==
  (exception = "none" /\ Len(PollerPicks) > 0)
  => current_video_label = [k \in 1..Len(last_played) |-> Basename(last_played[k])]

\* C22: play_selected_video gives the chosen slot exactly the selected file,
\* whether or not it is in last_played, and starts it; it changes the
\* last_played entry of that slot only and leaves the engine and media of
\* every other slot as they were.  A cancelled dialog changes nothing.
C22_ManualReplacementFrame ==
  [][last'.op = "play_selected_video"
     => IF last'.picks = <<>>
        THEN players' = players /\ last_played' = last_played
        ELSE LET i == last'.picks[1].i
             IN /\ exception' = "none"
                /\ Len(last'.picks) = 1
                /\ i \in Slots
                /\ last_played' = [last_played EXCEPT ![i] = last'.arg]
                /\ players'[i].id = players[i].id
                /\ players'[i].media = last'.arg
                /\ players'[i].state = "Opening"
                /\ Len(players') = Len(players)
                /\ \A j \in Slots \ {i} : players'[j] = players[j]
                /\ instances' = instances
                /\ video_frames' = video_frames]_vars

\* C22 witness: the file selected for a slot was playing in another slot and
\* other catalog files were free.
C22_Witness ==
  /\ last.op = "play_selected_video"
  /\ Len(last.picks) = 1
  /\ last.arg \in last.picks[1].others
  /\ video_files \ last.picks[1].excluded # {}
  /\ last_played[last.picks[1].i] = last.arg
  /\ players[last.picks[1].i].state = "Opening"

\* C27 (as claimed): when exactly one slot is playing, play_selected_video
\* replaces the file of that slot.
C27_ReplacesThePlayingSlot ==
  [][(/\ last'.op = "play_selected_video"
      /\ Cardinality({k \in Slots : is_playing(players[k])}) = 1)
     => /\ Len(last'.picks) = 1
        /\ is_playing(players[last'.picks[1].i])]_vars

\* C23 (as claimed): when an operation that re-parented slot surfaces
\* completes, set_video_output has been issued again for the engine of every
\* re-parented surface.
C23_OutputReboundAfterReparenting ==
  last.reparented = {}

\* C24 (as claimed): a step taken on an engine's own thread issues no command
\* to an engine.
C24_EngineThreadIssuesNoCommand ==
  last.op = "engine" => last.trace = <<>>

C26_ResizeToCurrentSizeIsNoOp ==
  [][(last'.op = "num_videos_spinbox" /\ last'.arg = Len(players))
     => /\ exception' = "none"
        /\ players' = players
        /\ instances' = instances
        /\ video_frames' = video_frames
        /\ checkboxes' = checkboxes
        /\ last_played' = last_played
        /\ num_videos' = num_videos
        /\ last'.trace = <<>>
        /\ last'.picks = <<>>
        /\ last'.reparented = {}]_vars

\* C26 witness: a pool of several slots with files assigned was asked for its
\* own size.
C26_Witness ==
  /\ last.op = "num_videos_spinbox"
  /\ last.arg = Len(players)
  /\ Len(players) >= 2
  /\ video_files # {}
  /\ \A k \in Slots : players[k].state = "Opening" /\ last_played[k] # None

\* C28 (as claimed): after stop() no slot is Playing or Paused, the timer is
\* stopped and the label is reset.
C28_StopIsBroadcast ==
  (last.op = "stop" /\ exception = "none")
  => /\ \A k \in Slots : players[k].state \notin {"Playing", "Paused"}
     /\ ~timer_active
     /\ current_video_label = <<>>

\* C29 (as claimed): a poller tick that finds a slot in state Error leaves
\* every sibling slot that is Playing with its engine state, file and
\* last_played entry.
C29_RuntimeErrorIsolated ==
  [][(/\ last'.op = "update_ui"
      /\ exception' = "none"
      /\ \E i \in Slots : players[i].state = "Error")
     => \A j \in Slots :
          players[j].state = "Playing"
          => players'[j] = players[j] /\ last_played'[j] = last_played[j]]_vars

\* C30 (as claimed): when closeEvent has completed, no engine instance that
\* was created is left unreleased.
C30_NoEngineLeak ==
  closed => unreleased = 0

\* C31 (as claimed): between operations players, instances, video_frames and
\* last_played all have length num_videos.
C31_ListsHaveLengthNumVideos ==
  exception = "none"
  => /\ Len(players) = num_videos
     /\ Len(instances) = num_videos
     /\ Len(video_frames) = num_videos
     /\ Len(last_played) = num_videos

====
